---- MODULE Spec2Model ----
(***************************************************************************)
(* Model of tinynn's scalar autograd engine (src/engine.py, class          *)
(* Variable).  The heap of Variable objects is the sequence `nodes`; a     *)
(* Variable's identity is its index in that sequence, so two Variables     *)
(* with equal data are still distinct.  Numbers are fixed-point with       *)
(* Scale units per 1: every value the model builds from the leaf data with *)
(* +, -, *, ** and relu is a multiple of Scale and is computed exactly;    *)
(* only tanh yields fractions.                                             *)
(***************************************************************************)
EXTENDS Integers, Sequences, FiniteSets, TLC

VARIABLES
  nodes,      \* the Variables constructed so far, in order of construction
  status,     \* how the last backward call ended: "none", "returned", "raised"
  log,        \* the rule invocations and gradient writes of the last backward call
  topo,       \* the order build_topo computed in the last backward call
  lastRoot,   \* the Variable the last backward call was made on
  passNo,     \* the number of backward calls made
  firstRoot,  \* the Variable the first backward call was made on
  snap,       \* the gradients right after the first backward call
  zeroed,     \* the Variables zero_grad was called on since the last backward call
  zeroedAt,   \* the value of zeroed when the last backward call was made
  call        \* the last construction call and its arguments

vars == <<nodes, status, log, topo, lastRoot, passNo, firstRoot, snap,
          zeroed, zeroedAt, call>>

\* ---------------------------------------------------------------- bounds
\* Spec: any interleaving of construction, backward and zero_grad, up to the
\* MaxPasses-th backward call
MaxNodes == 2
MaxPasses == 2
\* SpecOnePass: construction with at most one backward call
MaxNodesOnePass == 3
\* SpecLoss: a graph is built and backward is then called once
MaxNodesLoss == 4
\* largest magnitude of a node's data, in units of 1 (Python numbers are
\* unbounded; the model's are 32-bit)
MaxData == 8

\* fixed-point unit: the integer that stands for the number 1
Scale == 10 * 10

\* data the caller passes to Variable(...), and raw scalars passed as `other`
LeafData == {-Scale, 0, 2 * Scale}
RawData == {3 * Scale}
\* exponents the caller passes to **
Exponents == {0, 3}

\* ------------------------------------------------------------ arithmetic
Abs(x) == IF x < 0 THEN -x ELSE x

\* x * y on fixed-point numbers (rounds towards zero; exact on multiples of Scale)
FMul(x, y) ==
  LET p == x * y
  IN IF p >= 0 THEN p \div Scale ELSE -((-p) \div Scale)

\* 1 / x on fixed-point numbers, x # 0
FRecip(x) ==
  IF x > 0 THEN (Scale * Scale) \div x ELSE -((Scale * Scale) \div (-x))

RECURSIVE FPowNat(_, _)
FPowNat(x, e) == IF e = 0 THEN Scale ELSE FMul(x, FPowNat(x, e - 1))

\* Python's x ** e for an integer exponent e: raises ZeroDivisionError when
\* x = 0 and e < 0, otherwise the e-th power.
PowRaises(x, e) == e < 0 /\ x = 0
PyPow(x, e) == IF e >= 0 THEN FPowNat(x, e) ELSE FRecip(FPowNat(x, -e))

\* np.tanh: the values at 0, 1, ..., 5 rounded to 1/Scale, linear in between,
\* odd, and 1 from 5 on
TanhKnots == <<0, 76, 96, 99, Scale, Scale>>
TanhPos(x) ==
  LET i == x \div Scale
      f == x % Scale
  IN IF i >= 5 THEN Scale
     ELSE TanhKnots[i + 1] + ((TanhKnots[i + 2] - TanhKnots[i + 1]) * f) \div Scale
NpTanh(x) == IF x >= 0 THEN TanhPos(x) ELSE -TanhPos(-x)

Max(x, y) == IF x >= y THEN x ELSE y

\* --------------------------------------------------------------- objects
\* Variable.__init__: the _backward closure is represented by the tag op
\* together with the captured operands prev and the captured exponent.
\* rule is the closure stored in _backward: "none" is the default lambda.
Variable(data, op, rule, prev, exponent) ==
  [data |-> data, grad |-> 0, op |-> op, rule |-> rule, prev |-> prev,
   exponent |-> exponent]

Ids(ns) == 1 .. Len(ns)

\* --------------------------------------------------------- graph helpers
Parents(ns, v) == {ns[v].prev[i] : i \in 1 .. Len(ns[v].prev)}

RECURSIVE ReachFrom(_, _)
ReachFrom(ns, S) ==
  LET T == S \cup UNION {Parents(ns, v) : v \in S}
  IN IF T = S THEN S ELSE ReachFrom(ns, T)

\* every node reachable from r through parent references (r included)
Reach(ns, r) == ReachFrom(ns, {r})

\* ----------------------------------------------------------- build_topo
RECURSIVE build_topo(_, _, _)
RECURSIVE build_children(_, _, _, _)
build_topo(ns, v, st) ==
  IF v \in st.visited THEN st
  ELSE LET s1 == [st EXCEPT !.visited = @ \cup {v}]
           s2 == build_children(ns, ns[v].prev, 1, s1)
       IN [s2 EXCEPT !.topo = Append(@, v)]
build_children(ns, ch, i, st) ==
  IF i > Len(ch) THEN st
  ELSE build_children(ns, ch, i + 1, build_topo(ns, ch[i], st))

reversed(s) == [i \in 1 .. Len(s) |-> s[Len(s) + 1 - i]]

\* mutant: topo.insert(0, v) in place of topo.append(v)
TopoOf_insert_front(ns, r) ==
  reversed(build_topo(ns, r, [topo |-> <<>>, visited |-> {}]).topo)

\* topo after build_topo(self)
TopoOf(ns, r) == build_topo(ns, r, [topo |-> <<>>, visited |-> {}]).topo

\* ------------------------------------------------------- backward rules
\* w = [ns, log, raised]: the heap, the events of the pass so far, and
\* whether an exception has propagated out of a rule.
AddGrad(w, target, amount) ==
  [w EXCEPT !.ns[target].grad = @ + amount,
            !.log = Append(@, [ev |-> "write", node |-> target])]

backward_add(w, out) ==
  LET self == w.ns[out].prev[1]
      other == w.ns[out].prev[2]
      w1 == AddGrad(w, self, w.ns[out].grad)
  IN AddGrad(w1, other, w1.ns[out].grad)

backward_sub(w, out) ==
  LET self == w.ns[out].prev[1]
      other == w.ns[out].prev[2]
      w1 == AddGrad(w, self, w.ns[out].grad)
  IN AddGrad(w1, other, (-1) * w1.ns[out].grad)

backward_mul(w, out) ==
  LET self == w.ns[out].prev[1]
      other == w.ns[out].prev[2]
      w1 == AddGrad(w, self, FMul(w.ns[out].grad, w.ns[other].data))
  IN AddGrad(w1, other, FMul(w1.ns[out].grad, w1.ns[self].data))

backward_pow(w, out) ==
  LET self == w.ns[out].prev[1]
      exponent == w.ns[out].exponent
  IN IF PowRaises(w.ns[self].data, exponent - 1)
     THEN [w EXCEPT !.raised = TRUE]
     ELSE AddGrad(w, self,
                  FMul(w.ns[out].grad * exponent,
                       PyPow(w.ns[self].data, exponent - 1)))

backward_relu(w, out) ==
  LET self == w.ns[out].prev[1]
  IN IF w.ns[self].data <= 0
     THEN AddGrad(w, self, 0)
     ELSE AddGrad(w, self, w.ns[out].grad)

\* lambda: None
backward_none(w, out) == w

\* v._backward()
CallRule(w, v) ==
  LET w0 == [w EXCEPT !.log = Append(@, [ev |-> "call", node |-> v])]
      r == w0.ns[v].rule
  IN CASE r = "add" -> backward_add(w0, v)
       [] r = "sub" -> backward_sub(w0, v)
       [] r = "mul" -> backward_mul(w0, v)
       [] r = "pow" -> backward_pow(w0, v)
       [] r = "relu" -> backward_relu(w0, v)
       [] OTHER -> backward_none(w0, v)

\* for v in order: v._backward(), abandoned when a rule raises
RECURSIVE Walk(_, _, _)
Walk(order, i, w) ==
  IF i > Len(order) \/ w.raised THEN w
  ELSE Walk(order, i + 1, CallRule(w, order[i]))

\* mutant: self.grad += 1
Seed_accumulate(ns, r) == [ns EXCEPT ![r].grad = @ + Scale]

\* mutant: backward clears the gradient of every other Variable
Seed_reset_others(ns, r) ==
  [i \in Ids(ns) |-> [ns[i] EXCEPT !.grad = IF i = r THEN Scale ELSE 0]]

\* self.grad = 1
Seed(ns, r) == [ns EXCEPT ![r].grad = Scale]

\* mutant: for v in topo
WalkOrder_forward(t) == t

\* for v in reversed(topo): the order in which backward walks the nodes
WalkOrder(t) == reversed(t)

RunBackward(ns, r) ==
  LET t == TopoOf(ns, r)
  IN Walk(WalkOrder(t), 1, [ns |-> Seed(ns, r), log |-> <<>>, raised |-> FALSE])

\* mutant: zero_grad assigns nothing
ZeroGradOf_noop(ns, v) == ns

\* self.grad = 0
ZeroGradOf(ns, v) == [ns EXCEPT ![v].grad = 0]

Grads(ns) == [i \in Ids(ns) |-> ns[i].grad]

\* ----------------------------------------------------------------- Init
NoCall == [name |-> "none", self |-> 0, other |-> 0, raw |-> FALSE]

Init ==
  /\ nodes = <<>>
  /\ status = "none"
  /\ log = <<>>
  /\ topo = <<>>
  /\ lastRoot = 0
  /\ passNo = 0
  /\ firstRoot = 0
  /\ snap = <<>>
  /\ zeroed = {}
  /\ zeroedAt = {}
  /\ call = NoCall

HistUnchanged ==
  UNCHANGED <<status, log, topo, lastRoot, passNo, firstRoot, snap, zeroed, zeroedAt>>

\* -------------------------------------------------------------- actions
\* N bounds the number of Variables, P the number of backward calls.

\* Variable(d): the caller constructs a leaf
Leaf(N, d) ==
  /\ Len(nodes) < N
  /\ nodes' = Append(nodes, Variable(d, "", "none", <<>>, 0))
  /\ call' = [name |-> "leaf", self |-> 0, other |-> d, raw |-> FALSE]
  /\ HistUnchanged

\* other = other if isinstance(other, Variable) else Variable(other, ...):
\* o is [raw |-> FALSE, v |-> index] or [raw |-> TRUE, v |-> number]
Operands == [raw : {FALSE}, v : Ids(nodes)] \cup [raw : {TRUE}, v : RawData]

Lifted(ns, o) ==
  IF o.raw THEN Append(ns, Variable(o.v, "", "none", <<>>, 0)) ELSE ns
OtherId(ns, o) == IF o.raw THEN Len(ns) + 1 ELSE o.v
OtherData(ns, o) == IF o.raw THEN o.v ELSE ns[o.v].data

\* mutant: _prev=(other, self)
Binary_swapped(N, name, a, o, data) ==
  LET ns1 == Lifted(nodes, o)
      b == OtherId(nodes, o)
  IN /\ Len(ns1) < N
     /\ Abs(data) <= MaxData * Scale
     /\ nodes' = Append(ns1, Variable(data, name, name, <<b, a>>, 0))
     /\ call' = [name |-> name, self |-> a, other |-> o.v, raw |-> o.raw]
     /\ HistUnchanged

\* out = Variable(data, _op=name, _prev=(self, other)); out._backward = _backward
Binary(N, name, a, o, data) ==
  LET ns1 == Lifted(nodes, o)
      b == OtherId(nodes, o)
  IN /\ Len(ns1) < N
     /\ Abs(data) <= MaxData * Scale
     /\ nodes' = Append(ns1, Variable(data, name, name, <<a, b>>, 0))
     /\ call' = [name |-> name, self |-> a, other |-> o.v, raw |-> o.raw]
     /\ HistUnchanged

add(N, a, o) == Binary(N, "add", a, o, nodes[a].data + OtherData(nodes, o))
sub(N, a, o) == Binary(N, "sub", a, o, nodes[a].data - OtherData(nodes, o))
mul(N, a, o) == Binary(N, "mul", a, o, FMul(nodes[a].data, OtherData(nodes, o)))

Unary(N, name, rule, a, data, exponent) ==
  /\ Len(nodes) < N
  /\ Abs(data) <= MaxData * Scale
  /\ nodes' = Append(nodes, Variable(data, name, rule, <<a>>, exponent))
  /\ call' = [name |-> name, self |-> a, other |-> exponent, raw |-> FALSE]
  /\ HistUnchanged

\* a construction that raises builds no node
pow(N, a, k) ==
  /\ ~PowRaises(nodes[a].data, k)
  /\ Unary(N, "pow", "pow", a, PyPow(nodes[a].data, k), k)

relu(N, a) == Unary(N, "relu", "relu", a, Max(0, nodes[a].data), 0)

\* mutant: tanh stores a rule that passes the gradient on
tanh_wired(N, a) == Unary(N, "tanh", "relu", a, NpTanh(nodes[a].data), 0)

\* tanh returns the freshly constructed Variable: no rule is stored on it
tanh(N, a) == Unary(N, "tanh", "none", a, NpTanh(nodes[a].data), 0)

backward(P, r) ==
  /\ passNo < P
  /\ LET w == RunBackward(nodes, r)
     IN /\ nodes' = w.ns
        /\ log' = w.log
        /\ status' = IF w.raised THEN "raised" ELSE "returned"
        /\ snap' = IF passNo = 0 THEN Grads(w.ns) ELSE snap
  /\ topo' = TopoOf(nodes, r)
  /\ lastRoot' = r
  /\ passNo' = passNo + 1
  /\ firstRoot' = IF passNo = 0 THEN r ELSE firstRoot
  /\ zeroedAt' = zeroed
  /\ zeroed' = {}
  /\ UNCHANGED call

zero_grad(v) ==
  /\ nodes' = ZeroGradOf(nodes, v)
  /\ zeroed' = zeroed \cup {v}
  /\ UNCHANGED <<status, log, topo, lastRoot, passNo, firstRoot, snap, zeroedAt, call>>

\* the behaviours of Spec end with the MaxPasses-th backward call
Open == passNo < MaxPasses

Next ==
  \/ \E d \in LeafData : Open /\ Leaf(MaxNodes, d)
  \/ \E a \in Ids(nodes) : \E o \in Operands : Open /\ add(MaxNodes, a, o)
  \/ \E a \in Ids(nodes) : \E o \in Operands : Open /\ sub(MaxNodes, a, o)
  \/ \E a \in Ids(nodes) : \E o \in Operands : Open /\ mul(MaxNodes, a, o)
  \/ \E a \in Ids(nodes) : \E k \in Exponents : Open /\ pow(MaxNodes, a, k)
  \/ \E a \in Ids(nodes) : Open /\ relu(MaxNodes, a)
  \/ \E a \in Ids(nodes) : Open /\ tanh(MaxNodes, a)
  \/ \E r \in Ids(nodes) : backward(MaxPasses, r)
  \/ \E v \in Ids(nodes) : Open /\ zero_grad(v)

Spec == Init /\ [][Next]_vars

\* construction, with at most one backward call anywhere in it
NextOnePass ==
  \/ \E d \in LeafData : Leaf(MaxNodesOnePass, d)
  \/ \E a \in Ids(nodes) : \E o \in Operands : add(MaxNodesOnePass, a, o)
  \/ \E a \in Ids(nodes) : \E o \in Operands : sub(MaxNodesOnePass, a, o)
  \/ \E a \in Ids(nodes) : \E o \in Operands : mul(MaxNodesOnePass, a, o)
  \/ \E a \in Ids(nodes) : \E k \in Exponents : pow(MaxNodesOnePass, a, k)
  \/ \E a \in Ids(nodes) : relu(MaxNodesOnePass, a)
  \/ \E a \in Ids(nodes) : tanh(MaxNodesOnePass, a)
  \/ \E r \in Ids(nodes) : backward(1, r)

SpecOnePass == Init /\ [][NextOnePass]_vars

\* a graph is built and backward is then called once, as the last call
Fresh == passNo = 0

NextLoss ==
  \/ \E d \in LeafData : Fresh /\ Leaf(MaxNodesLoss, d)
  \/ \E a \in Ids(nodes) : \E o \in Operands : Fresh /\ add(MaxNodesLoss, a, o)
  \/ \E a \in Ids(nodes) : \E o \in Operands : Fresh /\ sub(MaxNodesLoss, a, o)
  \/ \E a \in Ids(nodes) : \E o \in Operands : Fresh /\ mul(MaxNodesLoss, a, o)
  \/ \E a \in Ids(nodes) : \E k \in Exponents : Fresh /\ pow(MaxNodesLoss, a, k)
  \/ \E a \in Ids(nodes) : Fresh /\ relu(MaxNodesLoss, a)
  \/ \E a \in Ids(nodes) : Fresh /\ tanh(MaxNodesLoss, a)
  \/ \E r \in Ids(nodes) : backward(1, r)

SpecLoss == Init /\ [][NextLoss]_vars

\* ------------------------------------------------- vocabulary of the claims
\* the consumer edges into n inside the graph under r: <<m, j>> when n is the
\* j-th operand of the reachable node m
EdgesInto(ns, r, n) ==
  {e \in Reach(ns, r) \X {1, 2} : e[2] <= Len(ns[e[1]].prev) /\ ns[e[1]].prev[e[2]] = n}

\* the derivative of node m with respect to its j-th operand
\* (add: 1, 1; sub: 1, -1; mul: the other operand; pow: k * a^(k-1), which is
\* 0 for the constant a^0; relu: 0 if a <= 0 else 1)
Local(ns, m, j) ==
  LET a == ns[ns[m].prev[1]].data
      k == ns[m].exponent
  IN CASE ns[m].op = "add" -> Scale
       [] ns[m].op = "sub" -> IF j = 1 THEN Scale ELSE -Scale
       [] ns[m].op = "mul" -> ns[ns[m].prev[3 - j]].data
       [] ns[m].op = "pow" -> IF k = 0 THEN 0 ELSE FMul(k * Scale, FPowNat(a, k - 1))
       [] ns[m].op = "relu" -> IF a <= 0 THEN 0 ELSE Scale
       [] OTHER -> 0

RECURSIVE SumOver(_, _, _)
SumOver(S, F(_), acc) ==
  IF S = {} THEN acc
  ELSE LET e == CHOOSE x \in S : TRUE IN SumOver(S \ {e}, F, acc + F(e))

\* sum over all parent-edge paths from r down to n of the product of the
\* local derivatives along the path
RECURSIVE PathSum(_, _, _)
PathSum(ns, r, n) ==
  IF n = r THEN Scale
  ELSE LET Term(e) == FMul(Local(ns, e[1], e[2]), PathSum(ns, r, e[1]))
       IN SumOver(EdgesInto(ns, r, n), Term, 0)

NoTanh(ns, r) == \A n \in Reach(ns, r) : ns[n].op # "tanh"

CallIdx(n) == {i \in 1 .. Len(log) : log[i].ev = "call" /\ log[i].node = n}
WriteIdx(n) == {i \in 1 .. Len(log) : log[i].ev = "write" /\ log[i].node = n}

\* the rule of m was invoked in the last pass and ran to its end (a rule that
\* raises does so before it writes)
Ran(m) ==
  /\ CallIdx(m) # {}
  /\ ~(status = "raised" /\ log[Len(log)] = [ev |-> "call", node |-> m])

\* ------------------------------------------------------------------ C7
\* C7: backward(root) on a graph built with the operations never raises
\* (in particular for pow nodes whose base value is 0).
C7_BackwardNeverRaises == status # "raised"

\* ------------------------------------------------------------------ C2
\* C2: in a backward(root) call the rule of every node reachable from root
\* is invoked exactly once, and no node's rule is invoked more than once.
C2_EachRuleExactlyOnce ==
  passNo >= 1 =>
    /\ \A n \in Reach(nodes, lastRoot) : Cardinality(CallIdx(n)) = 1
    /\ \A n \in Ids(nodes) : Cardinality(CallIdx(n)) <= 1

\* ------------------------------------------------------------------ C3
\* C3: after one backward(root) on a fresh graph of add, sub, mul, pow and
\* relu nodes, the root's gradient is 1 and every other reachable node's
\* gradient is the sum over the paths from root of the products of the local
\* derivatives.
C3_GradientIsPathSum ==
  (passNo = 1 /\ NoTanh(nodes, lastRoot)) =>
    /\ nodes[lastRoot].grad = Scale
    /\ \A n \in Reach(nodes, lastRoot) : nodes[n].grad = PathSum(nodes, lastRoot, n)

\* ------------------------------------------------------------------ C5
\* C5: the order build_topo computes holds every node reachable from root
\* exactly once (by identity), every node after all of its parents, a leaf at
\* index 0 and root last.
C5_TopoOrder ==
  passNo >= 1 =>
    LET R == Reach(nodes, lastRoot)
    IN /\ {topo[i] : i \in 1 .. Len(topo)} = R
       /\ Len(topo) = Cardinality(R)
       /\ \A i \in 1 .. Len(topo) : \A q \in Parents(nodes, topo[i]) :
            \E j \in 1 .. (i - 1) : topo[j] = q
       /\ nodes[topo[1]].prev = <<>>
       /\ topo[Len(topo)] = lastRoot

\* a pass over three nodes, one of them shared by two consumers, two of them
\* with equal data
C5_Witness ==
  /\ passNo >= 1
  /\ Len(topo) >= 3
  /\ \E n \in Reach(nodes, lastRoot) :
       Cardinality({e[1] : e \in EdgesInto(nodes, lastRoot, n)}) >= 2
  /\ \E m, n \in Reach(nodes, lastRoot) : m # n /\ nodes[m].data = nodes[n].data

\* ----------------------------------------------------------------- C10
\* C10: when a node's rule is invoked in a pass, the rule of every reachable
\* node that has it as a parent has already been invoked, and its gradient
\* is not written later in the pass.
C10_FinalGradientPropagated ==
  passNo >= 1 =>
    \A i \in 1 .. Len(log) :
      log[i].ev = "call" =>
        /\ \A m \in Reach(nodes, lastRoot) :
             log[i].node \in Parents(nodes, m) => \E j \in CallIdx(m) : j < i
        /\ \A j \in WriteIdx(log[i].node) : j < i

\* a node written by two different consumers, and then invoked
C10_Witness ==
  /\ status = "returned"
  /\ \E n \in Reach(nodes, lastRoot) :
       /\ Cardinality({e[1] : e \in EdgesInto(nodes, lastRoot, n)}) >= 2
       /\ Cardinality(WriteIdx(n)) >= 2
       /\ CallIdx(n) # {}
       /\ nodes[n].grad # 0

\* ------------------------------------------------------------------ C8
IsBinary(name) == name \in {"add", "sub", "mul"}

C8Step ==
  LET n == Len(nodes)
      c == call'
      out == nodes'[Len(nodes')]
  IN /\ \A i \in Ids(nodes) : nodes'[i] = nodes[i]
     /\ Cardinality({i \in (n + 1) .. Len(nodes') : nodes'[i].op # ""})
          = (IF c.name = "leaf" THEN 0 ELSE 1)
     /\ Len(nodes') = n + 1 + (IF c.raw THEN 1 ELSE 0)
     /\ out.grad = 0
     /\ c.raw => nodes'[n + 1] = Variable(c.other, "", "none", <<>>, 0)
     /\ c.name # "leaf" =>
          /\ out.op = c.name
          /\ out.prev = IF IsBinary(c.name)
                        THEN <<c.self, IF c.raw THEN n + 1 ELSE c.other>>
                        ELSE <<c.self>>

\* C8: an operation call creates exactly one result node, with gradient 0 and
\* its operands, in order, as parents (a raw scalar operand being lifted into a
\* fresh leaf), and changes neither value nor gradient of any existing node.
C8_OperationCreatesOneNode == [][Len(nodes') # Len(nodes) => C8Step]_vars

\* an operation applied, after a pass, to a node that carries a gradient and
\* to a raw scalar
C8_Witness ==
  /\ passNo = 1
  /\ Len(nodes) > Len(snap)
  /\ call.raw
  /\ call.self <= Len(snap)
  /\ nodes[call.self].grad # 0
  /\ nodes[Len(nodes)].prev = <<call.self, Len(nodes) - 1>>

\* ------------------------------------------------------------------ C9
C9Step ==
  /\ Len(nodes') >= Len(nodes)
  /\ \A i \in Ids(nodes) : nodes'[i].data = nodes[i].data
  /\ passNo' # passNo =>
       \A i \in Ids(nodes) \ Reach(nodes, lastRoot') : nodes'[i].grad = nodes[i].grad

\* C9: a node's value never changes after its creation, and backward(root)
\* leaves the gradient of every node not reachable from root as it was.
C9_ValuesAndUnreachableUntouched == [][C9Step]_vars

\* a node that consumes the root of the last pass keeps the gradient an
\* earlier pass gave it
C9_Witness ==
  /\ passNo = 2
  /\ zeroed = {}
  /\ \E n \in Ids(nodes) \ Reach(nodes, lastRoot) :
       lastRoot \in Parents(nodes, n) /\ nodes[n].grad # 0

\* ------------------------------------------------------------------ C6
OnlyTanhConsumers(ns, a) ==
  \A m \in Ids(ns) : a \in Parents(ns, m) => ns[m].op = "tanh"

C6Step ==
  passNo' # passNo =>
    /\ \A i \in 1 .. Len(log') :
         (log'[i].ev = "call" /\ nodes[log'[i].node].op = "tanh") =>
           (i = Len(log') \/ log'[i + 1].ev = "call")
    /\ \A t \in Reach(nodes, lastRoot') :
         (nodes[t].op = "tanh" /\ OnlyTanhConsumers(nodes, nodes[t].prev[1])) =>
           nodes'[nodes[t].prev[1]].grad = nodes[nodes[t].prev[1]].grad

\* C6: invoking a tanh node's rule writes no gradient, so the operand of a
\* tanh node in the pass, when all its consumers are tanh nodes, keeps the
\* gradient it had before the pass.
C6_NoFlowThroughTanh == [][C6Step]_vars

\* a pass through a tanh node that carries a gradient, whose operand kept the
\* gradient of an earlier pass
C6_Witness ==
  /\ passNo = 2
  /\ zeroed = {}
  /\ \E t \in Reach(nodes, lastRoot) :
       /\ nodes[t].op = "tanh"
       /\ nodes[t].grad # 0
       /\ CallIdx(t) # {}
       /\ OnlyTanhConsumers(nodes, nodes[t].prev[1])
       /\ nodes[nodes[t].prev[1]].grad # 0

\* ------------------------------------------------------------------ C4
C4Case ==
  /\ passNo = 2
  /\ zeroed = {}
  /\ lastRoot = firstRoot
  /\ Reach(nodes, lastRoot) \subseteq zeroedAt

\* C4: backward(root); zero_grad on every node reachable from root;
\* backward(root) leaves every reachable node with the gradient it had after
\* the first backward(root).
C4_RezeroedPassRepeats ==
  C4Case => \A n \in Reach(nodes, lastRoot) : nodes[n].grad = snap[n]

C4_Witness ==
  /\ C4Case
  /\ \E n \in Reach(nodes, lastRoot) \ {lastRoot} : nodes[n].grad # 0

\* ------------------------------------------------------------------ C1
C1Case ==
  /\ passNo = 2
  /\ zeroed = {}
  /\ zeroedAt = {}
  /\ lastRoot = firstRoot
  /\ NoTanh(nodes, lastRoot)

====
